---------------------------- MODULE Spec2Model ----------------------------
(***************************************************************************)
(* The request pipeline of server/main.go: combinedMiddleware wraps every   *)
(* /api route in loggingMiddleware, throttleMiddleware and                  *)
(* rateLimitMiddleware around the route's handler.  The process-wide        *)
(* limiter is a golang.org/x/time/rate token bucket built in main().        *)
(*                                                                         *)
(* Time is the wall clock in milliseconds since the server started.  The    *)
(* bucket's float64 token count is kept exactly, as an integer number of    *)
(* 1/(period * 1000) tokens, so that a refill of elapsed * rate is exact;   *)
(* float64 rounding is not modelled.  Limiter.Allow runs under the          *)
(* limiter's mutex and is one step.                                         *)
(*                                                                         *)
(* Spec follows API requests through the pipeline.  SpecThrottle follows    *)
(* one request under every pair of throttle bounds, SpecHealth adds the     *)
(* /health route and a database that comes and goes, SpecStartup follows    *)
(* main() from the environment to ListenAndServe.  SpecLimiter and          *)
(* SpecDelayed are the unthrottled and the throttled servers of Spec on     *)
(* their own, and SpecLive follows every request to its end under weak      *)
(* fairness of the goroutines and timers.  SpecBoot follows main() and then *)
(* the requests of the server it started, SpecStartupLive the same under    *)
(* weak fairness of main()'s steps.                                         *)
(***************************************************************************)
EXTENDS Integers, Sequences, FiniteSets

\* Requests the clients send to a server that does not throttle.
MaxRequests == 3

\* Requests the clients send to a server started with a throttle policy.
MaxThrottledRequests == 2

\* The clock is followed for this many seconds after the server started.
MaxSeconds == 2

\* int(time.Now().UnixNano()) reads a number of nanoseconds since the epoch
\* from 0 up to this one.
MaxNanos == 3

\* THROTTLE_MIN_MS and THROTTLE_MAX_MS range up to this many milliseconds
\* where the delay computation is examined on its own.
MaxThrottleMs == 3

\* Requests the clients send to /health.
MaxHealthRequests == 2

\* API requests sent alongside the health requests.
MaxHealthApiRequests == 1

\* Requests the clients send where every request is followed to its end.
MaxLiveRequests == 2

\* Requests the clients send to a server followed from the start of main().
MaxStartupRequests == 1

\* time.Second / time.Millisecond: RateLimitPeriod is in seconds, the
\* throttle bounds are in milliseconds.
MsPerSecond == 1000

\* http.StatusTooManyRequests
StatusTooManyRequests == 429

Requests == 1..(IF MaxRequests > MaxThrottledRequests
                THEN MaxRequests ELSE MaxThrottledRequests)

\* The requests to /health, numbered after the API requests.
HealthRequests ==
    { Cardinality(Requests) + k : k \in 1..MaxHealthRequests }

Clients == Requests \cup HealthRequests

\* The (RATE_LIMIT_REQUESTS, RATE_LIMIT_PERIOD) pairs the server is started with.
RatePolicies == {<<1, 1>>, <<2, 1>>, <<1, 2>>}

\* The (THROTTLE_MIN_MS, THROTTLE_MAX_MS) pairs of a throttled start.  <<1, 0>>
\* is a disabled policy with a positive minimum; <<2, 1>> has min > max, which
\* loadConfig does not refuse.
ThrottlePolicies == {<<1, 0>>, <<1, 1>>, <<1, 2>>, <<2, 1>>}

\* The environments the server is started in and the number of requests its
\* clients then send.
Scenarios ==
    { [rate |-> rp, throttle |-> <<0, 0>>, clients |-> MaxRequests] :
          rp \in RatePolicies }
    \cup
    { [rate |-> <<1, 1>>, throttle |-> tp, clients |-> MaxThrottledRequests] :
          tp \in ThrottlePolicies }

\* The clock readings followed: the start, either side of the half second and
\* the whole seconds.
Instants == {0, 499, 500} \cup { s * MsPerSecond : s \in 1..MaxSeconds }

\* What the clients send: the k-th request to arrive is the k-th of these,
\* cyclically.  None of them makes its handler use the database.
Workload == << "GET /api/get", "DELETE /api/db/messages", "POST /api/post {" >>

RequestOf(r) == Workload[((r - 1) % Len(Workload)) + 1]

VARIABLES
    config,     \* the package variable config, set once by main()
    limiter,    \* the package variable limiter: the rate.Limiter's fields
    now,        \* the wall clock, in ms
    pc,         \* per request: where its goroutine is
    stage,      \* per request: the closure of the chain it is in
    enter,      \* per request: when its time.Sleep began
    delay,      \* per request: the delay throttleMiddleware computed
    resp,       \* per request: the writes to its http.ResponseWriter, in order
    trace,      \* per request: the pipeline events so far (history)
    log,        \* the limiter's decisions in the order taken (history)
    env,        \* the process environment: variable name -> value
    phase,      \* where main() is
    db,         \* what db.Ping() returns at the moment: nil or an error
    attempt     \* initDB's loop variable i; 0 outside the loop

vars == <<config, limiter, now, pc, stage, enter, delay, resp, trace, log,
          env, phase, db, attempt>>

Min(a, b) == IF a < b THEN a ELSE b

----------------------------------------------------------------------------
\* loadConfig: the four integers read from the environment.
loadConfig(rp, tp) ==
    [ RateLimitRequests |-> rp[1],
      RateLimitPeriod   |-> rp[2],
      ThrottleMinMs     |-> tp[1],
      ThrottleMaxMs     |-> tp[2] ]

\* The four variables loadConfig reads for the limiter and the throttle.
EnvKeys ==
    {"RATE_LIMIT_REQUESTS", "RATE_LIMIT_PERIOD", "THROTTLE_MIN_MS", "THROTTLE_MAX_MS"}

\* Not a value: the variable is absent from the environment.
Unset == "(unset)"

\* The values a variable is given: empty, decimal numbers, a negative number
\* and a text strconv.Atoi does not parse.
EnvValues == {"", "0", "2", "-1", "1s"}

\* os.Getenv: the value, or "" when the variable is absent.
Getenv(e, key) == IF e[key] = Unset THEN "" ELSE e[key]

\* getEnv without the test for the empty value.
getEnvNoDefault(e, key, defaultValue) == Getenv(e, key)

\* getEnv: the value when it is not empty, else the default.
getEnv(e, key, defaultValue) ==
    IF Getenv(e, key) # "" THEN Getenv(e, key) ELSE defaultValue

\* strconv.Atoi with its error dropped ("x, _ :="): the number a decimal
\* text denotes, 0 for a text it does not parse.
Atoi(s) ==
    CASE s = "0"  -> 0
      [] s = "1"  -> 1
      [] s = "2"  -> 2
      [] s = "3"  -> 3
      [] s = "4"  -> 4
      [] s = "10" -> 10
      [] s = "-1" -> 0 - 1
      [] OTHER    -> 0

\* loadConfig on the environment e.
loadConfigEnv(e) ==
    loadConfig(<< Atoi(getEnv(e, "RATE_LIMIT_REQUESTS", "10")),
                  Atoi(getEnv(e, "RATE_LIMIT_PERIOD", "1")) >>,
               << Atoi(getEnv(e, "THROTTLE_MIN_MS", "0")),
                  Atoi(getEnv(e, "THROTTLE_MAX_MS", "0")) >>)

\* The decimal text of n, as a deployment writes it in the environment.
Itoa(n) == CHOOSE s \in {"0", "1", "2", "3", "4", "10", "-1"} : Atoi(s) = n

\* The environment that sets the four variables to the numbers of rp and tp.
EnvOf(rp, tp) ==
    [ k \in EnvKeys |->
        CASE k = "RATE_LIMIT_REQUESTS" -> Itoa(rp[1])
          [] k = "RATE_LIMIT_PERIOD"   -> Itoa(rp[2])
          [] k = "THROTTLE_MIN_MS"     -> Itoa(tp[1])
          [] k = "THROTTLE_MAX_MS"     -> Itoa(tp[2]) ]

\* ratePerSecond with twice the requests.
ratePerSecondDoubled(cfg) ==
    [ num |-> 2 * cfg.RateLimitRequests, den |-> cfg.RateLimitPeriod ]

\* ratePerSecond without the division by the period.
ratePerSecondNoPeriod(cfg) == [ num |-> cfg.RateLimitRequests, den |-> 1 ]

\* ratePerSecond with the quotient upside down.
ratePerSecondInverted(cfg) ==
    [ num |-> cfg.RateLimitPeriod, den |-> cfg.RateLimitRequests ]

\* ratePerSecond over twice the period.
ratePerSecondHalved(cfg) ==
    [ num |-> cfg.RateLimitRequests, den |-> 2 * cfg.RateLimitPeriod ]

\* ratePerSecond by the division of the two ints, which truncates.
ratePerSecondTruncated(cfg) ==
    IF cfg.RateLimitPeriod = 0
    THEN [ num |-> cfg.RateLimitRequests, den |-> 0 ]
    ELSE [ num |-> cfg.RateLimitRequests \div cfg.RateLimitPeriod, den |-> 1 ]

\* main(): ratePerSecond := float64(RateLimitRequests) / float64(RateLimitPeriod),
\* kept as the fraction num/den.
ratePerSecond(cfg) ==
    [ num |-> cfg.RateLimitRequests, den |-> cfg.RateLimitPeriod ]

\* The number of stored token units that make one whole token.
TokenUnit(lim) == lim.limit.den * MsPerSecond

\* rate.NewLimiter(r, b): a bucket of size b, initially full.
NewLimiter(r, b) ==
    [ limit |-> r, burst |-> b, tokens |-> b * r.den * MsPerSecond, last |-> 0 ]

\* The limiter built with twice the configured burst.
mainLimiterDoubleBurst(cfg) == NewLimiter(ratePerSecond(cfg), 2 * cfg.RateLimitRequests)

\* The limiter built with the period as its burst.
mainLimiterBurstFromPeriod(cfg) == NewLimiter(ratePerSecond(cfg), cfg.RateLimitPeriod)

\* main(): limiter = rate.NewLimiter(rate.Limit(ratePerSecond), RateLimitRequests)
mainLimiter(cfg) == NewLimiter(ratePerSecond(cfg), cfg.RateLimitRequests)

\* Limit.tokensFromDuration: d.Seconds() * limit, in token units, d in ms.
tokensFromDuration(lim, d) == d * lim.limit.num

\* Limiter.advance: the token count at time t, capped at burst.
advance(lim, t) ==
    LET last   == IF t < lim.last THEN t ELSE lim.last
        tokens == lim.tokens + tokensFromDuration(lim, t - last)
    IN  Min(tokens, lim.burst * TokenUnit(lim))

\* rate.Inf: the limit a positive number divided by float64(0) gives.
IsInf(r) == r.den = 0 /\ r.num > 0

\* Limiter.reserveN(t, 1, 0).ok: whether one whole token is there at t.  A
\* limiter whose limit is Inf allows every event.
AllowOk(lim, t) ==
    \/ IsInf(lim.limit)
    \/ 1 <= lim.burst /\ advance(lim, t) - TokenUnit(lim) >= 0

\* Limiter.reserveN(t, 1, 0): the limiter after the call; it is updated only
\* when the reservation is ok and the limit is finite.
AllowState(lim, t) ==
    IF AllowOk(lim, t) /\ ~IsInf(lim.limit)
    THEN [lim EXCEPT !.tokens = advance(lim, t) - TokenUnit(lim), !.last = t]
    ELSE lim

----------------------------------------------------------------------------
\* Go's %: the remainder of the division truncated toward zero, for a >= 0.
GoRem(a, b) == IF b > 0 THEN a % b ELSE a % (0 - b)

\* The divisor taken from the maximum alone.
throttleModulusMaxOnly(cfg) == cfg.ThrottleMaxMs + 1

\* The divisor without the + 1: the width of the half-open interval.
throttleModulusHalfOpen(cfg) == cfg.ThrottleMaxMs - cfg.ThrottleMinMs

\* throttleMiddleware: ThrottleMaxMs - ThrottleMinMs + 1, the divisor of the
\* random delay.
throttleModulus(cfg) == cfg.ThrottleMaxMs - cfg.ThrottleMinMs + 1

\* throttleMiddleware: the delay of a request when ThrottleMaxMs > 0.
throttleDelay(cfg, nanos) ==
    IF cfg.ThrottleMinMs = cfg.ThrottleMaxMs
    THEN cfg.ThrottleMinMs
    ELSE cfg.ThrottleMinMs + GoRem(nanos, throttleModulus(cfg))

\* The divisor is 0 when ThrottleMinMs = ThrottleMaxMs + 1: the division
\* panics and net/http aborts the request.
throttlePanics(cfg) ==
    cfg.ThrottleMinMs # cfg.ThrottleMaxMs /\ throttleModulus(cfg) = 0

\* throttleMiddleware testing the minimum instead of the maximum.
throttleSleepsOnMin(cfg) == cfg.ThrottleMinMs > 0

\* throttleMiddleware: whether the request sleeps at all.
throttleSleeps(cfg) == cfg.ThrottleMaxMs > 0

\* The chain with the limiter wrapped around the throttle.
combinedMiddlewareLimitFirst == <<"logging", "ratelimit", "throttle", "handler">>

\* combinedMiddleware: loggingMiddleware(throttleMiddleware(rateLimitMiddleware(next))),
\* the closures in the order they run.
combinedMiddleware == <<"logging", "throttle", "ratelimit", "handler">>

\* The rejection written with http.StatusServiceUnavailable.
RateLimitResponseUnavailable ==
    [ status |-> 503,
      body   |-> "{\"error\":\"Rate limit exceeded. Too many requests.\"}",
      by     |-> "ratelimit" ]

\* rateLimitMiddleware: the status and the body it writes when Allow is false.
RateLimitResponse ==
    [ status |-> StatusTooManyRequests,
      body   |-> "{\"error\":\"Rate limit exceeded. Too many requests.\"}",
      by     |-> "ratelimit" ]

\* What the route's handler writes for a request: getHandler's 200 and
\* message, the bare 405 of the /api/db/messages method switch, postHandler's
\* 400 for a payload that is not JSON.
HandlerResponse(req) ==
    CASE req = "GET /api/get" ->
           [status |-> 200, body |-> "{\"message\":...}", by |-> "handler"]
      [] req = "DELETE /api/db/messages" ->
           [status |-> 405, body |-> "", by |-> "handler"]
      [] req = "POST /api/post {" ->
           [status |-> 400, body |-> "{\"error\":\"Invalid JSON payload\"}",
            by |-> "handler"]

----------------------------------------------------------------------------
\* The /health route: healthHandler wrapped in the middleware of the API
\* routes.
healthRouteCombined == <<"logging", "throttle", "ratelimit", "health">>

\* http.HandleFunc("/health", healthHandler): the handler alone.
healthRoute == <<"health">>

\* The /api/db/messages route switching on the method before the middleware:
\* a method that is neither GET nor POST goes to the 405 at once.
ChainMethodFirst(r) ==
    IF r \in HealthRequests THEN healthRoute
    ELSE IF Workload[((r - 1) % Len(Workload)) + 1] = "DELETE /api/db/messages"
    THEN <<"handler">>
    ELSE combinedMiddleware

\* The closures a request runs through, by its route.
Chain(r) == IF r \in HealthRequests THEN healthRoute ELSE combinedMiddleware

\* db.Ping() returning nil.
Up == [ok |-> TRUE, msg |-> ""]

\* No request has been received.
Idle(api, health) ==
    /\ now = 0
    /\ pc = [r \in Clients |->
               IF \/ r \in Requests /\ r <= api
                  \/ r \in HealthRequests /\ r <= Cardinality(Requests) + health
               THEN "ready" ELSE "absent"]
    /\ stage = [r \in Clients |-> 1]
    /\ enter = [r \in Clients |-> 0]
    /\ delay = [r \in Clients |-> 0]
    /\ resp = [r \in Clients |-> << >>]
    /\ trace = [r \in Clients |-> << >>]
    /\ log = << >>

\* main() has reached ListenAndServe in the environment that sets the four
\* variables to rp and tp; the database answers.
Serving(rp, tp) ==
    /\ env = EnvOf(rp, tp)
    /\ config = loadConfig(rp, tp)
    /\ limiter = mainLimiter(loadConfig(rp, tp))
    /\ phase = "serving"
    /\ attempt = 0

Init ==
    /\ \E sc \in Scenarios :
          /\ Serving(sc.rate, sc.throttle)
          /\ Idle(sc.clients, 0)
    /\ db = Up

\* The request's goroutine is about to run the closure called name.
InStage(r, name) ==
    /\ pc[r] = "ready"
    /\ stage[r] <= Len(Chain(r))
    /\ Chain(r)[stage[r]] = name

\* next(w, r): the request goes on to the next closure of the chain.
CallNext(r) == stage' = [stage EXCEPT ![r] = @ + 1]

Event(r, e) == trace' = [trace EXCEPT ![r] = Append(@, e)]

\* The clock advances; no goroutine takes a step meanwhile.
Tick ==
    /\ \E t \in Instants : t > now /\ now' = t
    /\ UNCHANGED <<config, limiter, pc, stage, enter, delay, resp, trace, log,
                 env, phase, db, attempt>>

\* loggingMiddleware consulting the limiter itself before it passes the
\* request on.
LoggingCallsAllow(r) ==
    /\ InStage(r, "logging")
    /\ \A q \in Clients : (q < r /\ pc[q] # "absent") => trace[q] # << >>
    /\ limiter' = AllowState(limiter, now)
    /\ CallNext(r)
    /\ Event(r, "arrive")
    /\ UNCHANGED <<config, now, pc, enter, delay, resp, log, env, phase, db, attempt>>

\* loggingMiddleware: the request arrives and is passed on.  Requests are
\* numbered in the order they arrive.
Logging(r) ==
    /\ InStage(r, "logging")
    /\ \A q \in Clients : (q < r /\ pc[q] # "absent") => trace[q] # << >>
    /\ CallNext(r)
    /\ Event(r, "arrive")
    /\ UNCHANGED <<config, limiter, now, pc, enter, delay, resp, log, env, phase, db, attempt>>

\* throttleMiddleware sleeping under a lock shared by all requests: a
\* request enters the stage only when no other request is asleep.
ThrottleHoldsLock(r) ==
    /\ InStage(r, "throttle")
    /\ \A q \in Clients : pc[q] # "sleeping"
    /\ IF ~throttleSleeps(config)
       THEN /\ CallNext(r)
            /\ UNCHANGED <<pc, enter, delay, trace>>
       ELSE IF throttlePanics(config)
       THEN /\ pc' = [pc EXCEPT ![r] = "panicked"]
            /\ Event(r, "panic")
            /\ UNCHANGED <<stage, enter, delay>>
       ELSE \E nanos \in 0..MaxNanos :
            /\ delay' = [delay EXCEPT ![r] = throttleDelay(config, nanos)]
            /\ enter' = [enter EXCEPT ![r] = now]
            /\ pc' = [pc EXCEPT ![r] = "sleeping"]
            /\ Event(r, "sleep")
            /\ UNCHANGED stage
    /\ UNCHANGED <<config, limiter, now, resp, log, env, phase, db, attempt>>

\* throttleMiddleware up to time.Sleep (or to next, when throttling is off).
Throttle(r) ==
    /\ InStage(r, "throttle")
    /\ IF ~throttleSleeps(config)
       THEN /\ CallNext(r)
            /\ UNCHANGED <<pc, enter, delay, trace>>
       ELSE IF throttlePanics(config)
       THEN /\ pc' = [pc EXCEPT ![r] = "panicked"]
            /\ Event(r, "panic")
            /\ UNCHANGED <<stage, enter, delay>>
       ELSE \E nanos \in 0..MaxNanos :
            /\ delay' = [delay EXCEPT ![r] = throttleDelay(config, nanos)]
            /\ enter' = [enter EXCEPT ![r] = now]
            /\ pc' = [pc EXCEPT ![r] = "sleeping"]
            /\ Event(r, "sleep")
            /\ UNCHANGED stage
    /\ UNCHANGED <<config, limiter, now, resp, log, env, phase, db, attempt>>

\* time.Sleep(time.Duration(delay)) without "* time.Millisecond": the sleep
\* lasts delay nanoseconds and is over within the millisecond.
SleepDoneNanoseconds(r) == now >= enter[r]

\* time.Sleep(d) returns once d has passed since it was called.
SleepDone(r) == now >= enter[r] + delay[r]

\* throttleMiddleware from the return of time.Sleep: next(w, r).
ThrottleWake(r) ==
    /\ pc[r] = "sleeping"
    /\ SleepDone(r)
    /\ pc' = [pc EXCEPT ![r] = "ready"]
    /\ CallNext(r)
    /\ Event(r, "wake")
    /\ UNCHANGED <<config, limiter, now, enter, delay, resp, log, env, phase, db, attempt>>

\* The rejection without its return: the 429 is written and next is called.
RateLimitRejectNoReturn(r) ==
    /\ resp' = [resp EXCEPT ![r] = Append(@, RateLimitResponse)]
    /\ CallNext(r)
    /\ Event(r, "deny")
    /\ UNCHANGED pc

\* The rejection that keeps the request waiting in front of the limiter, to
\* try again.
RateLimitRejectRetries(r) ==
    /\ Event(r, "deny")
    /\ UNCHANGED <<pc, stage, resp>>

\* rateLimitMiddleware when Allow is false: the 429, its body, return.
RateLimitReject(r) ==
    /\ resp' = [resp EXCEPT ![r] = Append(@, RateLimitResponse)]
    /\ pc' = [pc EXCEPT ![r] = "done"]
    /\ Event(r, "deny")
    /\ UNCHANGED stage

\* The admission writing a 200 header before it calls next.
RateLimitAdmitWritesHeader(r) ==
    /\ resp' = [resp EXCEPT ![r] =
           Append(@, [status |-> 200, body |-> "", by |-> "ratelimit"])]
    /\ CallNext(r)
    /\ Event(r, "allow")
    /\ UNCHANGED pc

\* rateLimitMiddleware when Allow is true: next(w, r) and nothing else.
RateLimitAdmit(r) ==
    /\ CallNext(r)
    /\ Event(r, "allow")
    /\ UNCHANGED <<pc, resp>>

RECURSIVE LimiterAfter(_)
\* The limiter main() built, after the Allow calls of entries and no others.
LimiterAfter(entries) ==
    IF entries = << >>
    THEN mainLimiter(config)
    ELSE AllowState(LimiterAfter(SubSeq(entries, 1, Len(entries) - 1)),
                    entries[Len(entries)].t)

\* The path a request is sent to.
Route(r) ==
    CASE RequestOf(r) = "GET /api/get" -> "/api/get"
      [] RequestOf(r) = "DELETE /api/db/messages" -> "/api/db/messages"
      [] RequestOf(r) = "POST /api/post {" -> "/api/post"

\* rateLimitMiddleware with one limiter for each route: the request is
\* decided by the calls made on its own route.
RateLimitPerRoute(r) ==
    LET mine == SelectSeq(log, LAMBDA e : Route(e.req) = Route(r))
        ok   == AllowOk(LimiterAfter(mine), now)
    IN  /\ InStage(r, "ratelimit")
        /\ limiter' = limiter
        /\ log' = Append(log, [req |-> r, t |-> now, ok |-> ok])
        /\ IF ok THEN RateLimitAdmit(r) ELSE RateLimitReject(r)
        /\ UNCHANGED <<config, now, enter, delay, env, phase, db, attempt>>

\* rateLimitMiddleware building a limiter of its own for every request
\* instead of using the package variable.
RateLimitOwnLimiter(r) ==
    /\ InStage(r, "ratelimit")
    /\ limiter' = limiter
    /\ log' = Append(log, [req |-> r, t |-> now,
                           ok |-> AllowOk(mainLimiter(config), now)])
    /\ IF AllowOk(mainLimiter(config), now)
       THEN RateLimitAdmit(r) ELSE RateLimitReject(r)
    /\ UNCHANGED <<config, now, enter, delay, env, phase, db, attempt>>

\* rateLimitMiddleware taking its token with limiter.Reserve(): the token is
\* charged to the bucket also when the request is rejected.
RateLimitReserves(r) ==
    /\ InStage(r, "ratelimit")
    /\ limiter' = [limiter EXCEPT !.tokens = advance(limiter, now) - TokenUnit(limiter),
                                  !.last = now]
    /\ log' = Append(log, [req |-> r, t |-> now, ok |-> AllowOk(limiter, now)])
    /\ IF AllowOk(limiter, now) THEN RateLimitAdmit(r) ELSE RateLimitReject(r)
    /\ UNCHANGED <<config, now, enter, delay, env, phase, db, attempt>>

\* rateLimitMiddleware without the "!": the 429 when Allow is true.
RateLimitNegated(r) ==
    /\ InStage(r, "ratelimit")
    /\ limiter' = AllowState(limiter, now)
    /\ log' = Append(log, [req |-> r, t |-> now, ok |-> AllowOk(limiter, now)])
    /\ IF AllowOk(limiter, now) THEN RateLimitReject(r) ELSE RateLimitAdmit(r)
    /\ UNCHANGED <<config, now, enter, delay, env, phase, db, attempt>>

\* rateLimitMiddleware widening the shared limiter's burst on every call.
RateLimitSetsBurst(r) ==
    /\ InStage(r, "ratelimit")
    /\ limiter' = [AllowState(limiter, now) EXCEPT !.burst = @ + 1]
    /\ log' = Append(log, [req |-> r, t |-> now, ok |-> AllowOk(limiter, now)])
    /\ IF AllowOk(limiter, now) THEN RateLimitAdmit(r) ELSE RateLimitReject(r)
    /\ UNCHANGED <<config, now, enter, delay, env, phase, db, attempt>>

\* rateLimitMiddleware: limiter.Allow() on the shared limiter, then the 429
\* or next.
RateLimit(r) ==
    /\ InStage(r, "ratelimit")
    /\ limiter' = AllowState(limiter, now)
    /\ log' = Append(log, [req |-> r, t |-> now, ok |-> AllowOk(limiter, now)])
    /\ IF AllowOk(limiter, now) THEN RateLimitAdmit(r) ELSE RateLimitReject(r)
    /\ UNCHANGED <<config, now, enter, delay, env, phase, db, attempt>>

\* The route's handler runs, writes its response and returns; the closures
\* around it return without doing anything more.
Handler(r) ==
    /\ InStage(r, "handler")
    /\ resp' = [resp EXCEPT ![r] = Append(@, HandlerResponse(RequestOf(r)))]
    /\ pc' = [pc EXCEPT ![r] = "done"]
    /\ Event(r, "handler")
    /\ UNCHANGED <<config, limiter, now, stage, enter, delay, log, env, phase, db, attempt>>

Next ==
    \/ Tick
    \/ \E r \in Clients : Logging(r)
    \/ \E r \in Clients : Throttle(r)
    \/ \E r \in Clients : ThrottleWake(r)
    \/ \E r \in Clients : RateLimit(r)
    \/ \E r \in Requests : Handler(r)

Spec == Init /\ [][Next]_vars

----------------------------------------------------------------------------
\* The throttle on its own: one request to a server started with any pair of
\* THROTTLE_MIN_MS and THROTTLE_MAX_MS up to MaxThrottleMs.
InitThrottle ==
    /\ \E mn \in 0..MaxThrottleMs, mx \in 0..MaxThrottleMs :
          Serving(<<1, 1>>, <<mn, mx>>)
    /\ Idle(1, 0)
    /\ db = Up

SpecThrottle == InitThrottle /\ [][Next]_vars

----------------------------------------------------------------------------
\* The pipeline of the version of main.go without loggingMiddleware, whose
\* throttleMiddleware and rateLimitMiddleware are the same functions.  It is
\* written on the state of the logged pipeline seen without its logging:
\* stageU and traceU are a request's place and history in the shorter chain.

\* combinedMiddleware: throttleMiddleware(rateLimitMiddleware(next))
combinedMiddlewareUnlogged == <<"throttle", "ratelimit", "handler">>

stageU == [r \in Clients |-> IF stage[r] = 1 THEN 1 ELSE stage[r] - 1]

traceU == [r \in Clients |-> SelectSeq(trace[r], LAMBDA e : e # "arrive")]

varsU == <<config, limiter, now, pc, stageU, enter, delay, resp, traceU, log>>

InStageU(r, name) ==
    /\ pc[r] = "ready"
    /\ stageU[r] <= Len(combinedMiddlewareUnlogged)
    /\ combinedMiddlewareUnlogged[stageU[r]] = name

CallNextU(r) == stageU' = [stageU EXCEPT ![r] = @ + 1]

EventU(r, e) == traceU' = [traceU EXCEPT ![r] = Append(@, e)]

UnloggedTick ==
    /\ \E t \in Instants : t > now /\ now' = t
    /\ UNCHANGED <<config, limiter, pc, stageU, enter, delay, resp, traceU, log>>

\* throttleMiddleware up to time.Sleep.
UnloggedThrottle(r) ==
    /\ InStageU(r, "throttle")
    /\ IF ~throttleSleeps(config)
       THEN /\ CallNextU(r)
            /\ UNCHANGED <<pc, enter, delay, traceU>>
       ELSE IF throttlePanics(config)
       THEN /\ pc' = [pc EXCEPT ![r] = "panicked"]
            /\ EventU(r, "panic")
            /\ UNCHANGED <<stageU, enter, delay>>
       ELSE \E nanos \in 0..MaxNanos :
            /\ delay' = [delay EXCEPT ![r] = throttleDelay(config, nanos)]
            /\ enter' = [enter EXCEPT ![r] = now]
            /\ pc' = [pc EXCEPT ![r] = "sleeping"]
            /\ EventU(r, "sleep")
            /\ UNCHANGED stageU
    /\ UNCHANGED <<config, limiter, now, resp, log>>

\* throttleMiddleware from the return of time.Sleep.
UnloggedThrottleWake(r) ==
    /\ pc[r] = "sleeping"
    /\ SleepDone(r)
    /\ pc' = [pc EXCEPT ![r] = "ready"]
    /\ CallNextU(r)
    /\ EventU(r, "wake")
    /\ UNCHANGED <<config, limiter, now, enter, delay, resp, log>>

\* rateLimitMiddleware.
UnloggedRateLimit(r) ==
    /\ InStageU(r, "ratelimit")
    /\ limiter' = AllowState(limiter, now)
    /\ log' = Append(log, [req |-> r, t |-> now, ok |-> AllowOk(limiter, now)])
    /\ IF AllowOk(limiter, now)
       THEN /\ CallNextU(r)
            /\ EventU(r, "allow")
            /\ UNCHANGED <<pc, resp>>
       ELSE /\ resp' = [resp EXCEPT ![r] = Append(@, RateLimitResponse)]
            /\ pc' = [pc EXCEPT ![r] = "done"]
            /\ EventU(r, "deny")
            /\ UNCHANGED stageU
    /\ UNCHANGED <<config, now, enter, delay>>

\* The route's handler.
UnloggedHandler(r) ==
    /\ InStageU(r, "handler")
    /\ resp' = [resp EXCEPT ![r] = Append(@, HandlerResponse(RequestOf(r)))]
    /\ pc' = [pc EXCEPT ![r] = "done"]
    /\ EventU(r, "handler")
    /\ UNCHANGED <<config, limiter, now, stageU, enter, delay, log>>

UnloggedNext ==
    \/ UnloggedTick
    \/ \E r \in Requests : UnloggedThrottle(r)
    \/ \E r \in Requests : UnloggedThrottleWake(r)
    \/ \E r \in Requests : UnloggedRateLimit(r)
    \/ \E r \in Requests : UnloggedHandler(r)

----------------------------------------------------------------------------
\* Every request followed to its end: goroutines that can run do run, and
\* the clock goes on until each sleep is over.

\* The throttle policies of the servers followed: none, a random delay, and
\* ThrottleMinMs = ThrottleMaxMs + 1, which main() does not refuse.
LiveThrottlePolicies == {<<0, 0>>, <<1, 2>>, <<2, 1>>}

InitLive ==
    /\ \E tp \in LiveThrottlePolicies : Serving(<<1, 1>>, tp)
    /\ Idle(MaxLiveRequests, 0)
    /\ db = Up

\* The clock reaches the instant at which the sleep of r is over: the
\* runtime timer of time.Sleep fires.
SleepElapses(r) ==
    /\ pc[r] = "sleeping"
    /\ now < enter[r] + delay[r]
    /\ now' = enter[r] + delay[r]
    /\ UNCHANGED <<config, limiter, pc, stage, enter, delay, resp, trace, log,
                   env, phase, db, attempt>>

NextLive ==
    \/ Next
    \/ \E r \in Requests : SleepElapses(r)

\* The Go scheduler runs every goroutine that can take a step, and timers
\* fire.
Fairness ==
    \A r \in Requests :
        /\ WF_vars(Logging(r))
        /\ WF_vars(Throttle(r))
        /\ WF_vars(SleepElapses(r))
        /\ WF_vars(ThrottleWake(r))
        /\ WF_vars(RateLimit(r))
        /\ WF_vars(Handler(r))

SpecLive == InitLive /\ [][NextLive]_vars /\ Fairness

----------------------------------------------------------------------------
\* The messages of the errors db.Ping() returns: a refused connection, and an
\* error whose Error() is the empty string.
PingErrors == {"dial tcp: connect: connection refused", ""}

\* What db.Ping() can return.
PingResults == {Up} \cup { [ok |-> FALSE, msg |-> m] : m \in PingErrors }

\* healthHandler: dbStatus after the ping.
dbStatus(ping) == IF ping.ok THEN "connected" ELSE "disconnected"

\* healthHandler: dbError after the ping, err.Error() or "".
dbError(ping) == IF ping.ok THEN "" ELSE ping.msg

\* healthHandler: the response map after "if dbError != \"\"".  The time
\* of the response, the host, port and name of the database and the
\* server's port are left out.
healthDocument(cfg, ping) ==
    [ status        |-> IF dbError(ping) # "" THEN "degraded" ELSE "ok",
      database      |-> IF dbError(ping) # ""
                        THEN [status |-> dbStatus(ping), error |-> dbError(ping)]
                        ELSE [status |-> dbStatus(ping)],
      configuration |->
        [ rate_limiting |->
            [ requests        |-> cfg.RateLimitRequests,
              period_seconds  |-> cfg.RateLimitPeriod,
              rate_per_second |-> ratePerSecond(cfg) ],
          throttling |->
            [ min_ms  |-> cfg.ThrottleMinMs,
              max_ms  |-> cfg.ThrottleMaxMs,
              enabled |-> cfg.ThrottleMaxMs > 0 ] ] ]

\* json.Encoder.Encode of the response map: encoding/json refuses a float64
\* that is an infinity or a NaN, which is what a division by float64(0)
\* gives; Encode then returns an error and writes nothing.
Encodes(cfg) == cfg.RateLimitPeriod # 0

\* healthHandler: the status written, 503 by WriteHeader when the ping
\* failed, else the 200 of the first write (or of the handler's return).
healthStatus(ping) == IF dbStatus(ping) = "disconnected" THEN 503 ELSE 200

\* healthHandler: what the client receives.  body is the text written, doc
\* the JSON document it is; probe records what db.Ping() returned (history).
healthResponse(cfg, ping) ==
    IF Encodes(cfg)
    THEN [ status |-> healthStatus(ping), body |-> "{\"status\":...}",
           by |-> "health", probe |-> ping, doc |-> healthDocument(cfg, ping) ]
    ELSE [ status |-> healthStatus(ping), body |-> "",
           by |-> "health", probe |-> ping ]

\* healthHandler pinging a second time when the first ping failed.
HealthRetries(h) ==
    /\ InStage(h, "health")
    /\ \A q \in HealthRequests : q < h => pc[q] \in {"done", "absent"}
    /\ resp' = [resp EXCEPT ![h] = Append(@, healthResponse(config, db))]
    /\ trace' = [trace EXCEPT ![h] =
                    @ \o (IF db.ok THEN <<"ping", "health">>
                                   ELSE <<"ping", "ping", "health">>)]
    /\ pc' = [pc EXCEPT ![h] = "done"]
    /\ UNCHANGED <<config, limiter, now, stage, enter, delay, log, env, phase, db, attempt>>

\* healthHandler, from the ping to the response.  Health requests are
\* numbered in the order they are served.
Health(h) ==
    /\ InStage(h, "health")
    /\ \A q \in HealthRequests : q < h => pc[q] \in {"done", "absent"}
    /\ resp' = [resp EXCEPT ![h] = Append(@, healthResponse(config, db))]
    /\ trace' = [trace EXCEPT ![h] = @ \o <<"ping", "health">>]
    /\ pc' = [pc EXCEPT ![h] = "done"]
    /\ UNCHANGED <<config, limiter, now, stage, enter, delay, log, env, phase, db, attempt>>

\* The database goes away, comes back, or fails in another way.
DbChange ==
    /\ \E p \in PingResults : p # db /\ db' = p
    /\ UNCHANGED <<config, limiter, now, pc, stage, enter, delay, resp, trace, log,
                   env, phase, attempt>>

\* The servers the health endpoint is examined on: one that limits, one that
\* also throttles, and one started with RATE_LIMIT_PERIOD=0, which main()
\* does not refuse.
HealthScenarios ==
    { [rate |-> <<1, 1>>, throttle |-> <<0, 0>>],
      [rate |-> <<2, 1>>, throttle |-> <<1, 1>>],
      [rate |-> <<1, 0>>, throttle |-> <<0, 0>>] }

InitHealth ==
    /\ \E sc \in HealthScenarios : Serving(sc.rate, sc.throttle)
    /\ Idle(MaxHealthApiRequests, MaxHealthRequests)
    /\ db \in PingResults

NextHealth ==
    \/ Next
    \/ \E h \in HealthRequests : Health(h)
    \/ DbChange

SpecHealth == InitHealth /\ [][NextHealth]_vars

----------------------------------------------------------------------------
\* var limiter *rate.Limiter before main() assigns it.
nilLimiter == [ limit |-> [num |-> 0, den |-> 1], burst |-> 0, tokens |-> 0, last |-> 0 ]

\* The process starts: the package variables hold their zero values and the
\* environment sets, empties or omits each of the four variables.
InitStartup ==
    /\ env \in [EnvKeys -> EnvValues \cup {Unset}]
    /\ phase = "start"
    /\ attempt = 0
    /\ config = loadConfig(<<0, 0>>, <<0, 0>>)
    /\ limiter = nilLimiter
    /\ db \in PingResults
    /\ Idle(0, 0)

\* main(): config = loadConfig()
LoadConfig ==
    /\ phase = "start"
    /\ config' = loadConfigEnv(env)
    /\ phase' = "configured"
    /\ UNCHANGED <<limiter, now, pc, stage, enter, delay, resp, trace, log, env, db, attempt>>

\* main(): ratePerSecond and rate.NewLimiter, with no test of the period or
\* of the throttle bounds before or after.
BuildLimiter ==
    /\ phase = "configured"
    /\ limiter' = mainLimiter(config)
    /\ phase' = "limited"
    /\ UNCHANGED <<config, now, pc, stage, enter, delay, resp, trace, log, env, db, attempt>>

\* initDB: maxRetries := 30
maxRetries == 30

\* initDB carrying on as if connected when the last ping failed too.
InitDBPingIgnoresFailure ==
    /\ phase = "limited"
    /\ IF db.ok \/ attempt + 1 = maxRetries
       THEN phase' = "connected" /\ attempt' = 0
       ELSE phase' = phase /\ attempt' = attempt + 1
    /\ UNCHANGED <<config, limiter, now, pc, stage, enter, delay, resp, trace, log,
                   env, db>>

\* initDB: one turn of the loop "for i := 0; i < maxRetries; i++".  db.Ping()
\* without error leaves the loop; with an error the turn sleeps two seconds
\* (during which the database may change) and i goes up.  When the loop ends
\* with the error of the last ping, initDB returns it and main()'s log.Fatalf
\* ends the process.
InitDBPing ==
    /\ phase = "limited"
    /\ IF db.ok
       THEN phase' = "connected" /\ attempt' = 0
       ELSE IF attempt + 1 = maxRetries
       THEN phase' = "exited" /\ attempt' = 0
       ELSE phase' = phase /\ attempt' = attempt + 1
    /\ UNCHANGED <<config, limiter, now, pc, stage, enter, delay, resp, trace, log,
                   env, db>>

\* initDB: db.Exec of CREATE TABLE IF NOT EXISTS; its error is returned and
\* ends the process as well.
InitDBExec ==
    /\ phase = "connected"
    /\ phase' = IF db.ok THEN "initialised" ELSE "exited"
    /\ UNCHANGED <<config, limiter, now, pc, stage, enter, delay, resp, trace, log,
                   env, db, attempt>>

\* main(): the routes are registered and server.ListenAndServe() accepts
\* requests.
ListenAndServe ==
    /\ phase = "initialised"
    /\ phase' = "serving"
    /\ UNCHANGED <<config, limiter, now, pc, stage, enter, delay, resp, trace, log,
                   env, db, attempt>>

NextStartup ==
    \/ LoadConfig
    \/ BuildLimiter
    \/ InitDBPing
    \/ InitDBExec
    \/ ListenAndServe
    \/ DbChange

SpecStartup == InitStartup /\ [][NextStartup]_vars

----------------------------------------------------------------------------
\* main() from its first statement on, followed by the requests the server
\* takes once ListenAndServe runs: no connection is accepted before it.
InitBoot ==
    /\ \E sc \in HealthScenarios : env = EnvOf(sc.rate, sc.throttle)
    /\ phase = "start"
    /\ attempt = 0
    /\ config = loadConfig(<<0, 0>>, <<0, 0>>)
    /\ limiter = nilLimiter
    /\ db \in PingResults
    /\ Idle(MaxHealthApiRequests, MaxHealthRequests)

NextBoot ==
    \/ LoadConfig
    \/ BuildLimiter
    \/ InitDBPing
    \/ InitDBExec
    \/ ListenAndServe
    \/ DbChange
    \/ phase = "serving" /\ Next
    \/ phase = "serving" /\ \E h \in HealthRequests : Health(h)

SpecBoot == InitBoot /\ [][NextBoot]_vars

----------------------------------------------------------------------------
\* main() run to its end: the main goroutine takes each of its steps when it
\* can (db.Ping() and db.Exec() return), the database comes and goes as it
\* likes, and the requests of the clients are taken once ListenAndServe runs.
InitStartupLive ==
    /\ env = EnvOf(<<1, 1>>, <<1, 1>>)
    /\ phase = "start"
    /\ attempt = 0
    /\ config = loadConfig(<<0, 0>>, <<0, 0>>)
    /\ limiter = nilLimiter
    /\ db \in PingResults
    /\ Idle(MaxStartupRequests, 0)

NextStartupLive ==
    \/ LoadConfig
    \/ BuildLimiter
    \/ InitDBPing
    \/ InitDBExec
    \/ ListenAndServe
    \/ DbChange
    \/ phase = "serving" /\ Next

FairnessStartup ==
    /\ WF_vars(LoadConfig)
    /\ WF_vars(BuildLimiter)
    /\ WF_vars(InitDBPing)
    /\ WF_vars(InitDBExec)
    /\ WF_vars(ListenAndServe)

SpecStartupLive == InitStartupLive /\ [][NextStartupLive]_vars /\ FairnessStartup

----------------------------------------------------------------------------
\* Shorthands over the history of limiter decisions.
Capacity == config.RateLimitRequests

PeriodMs == config.RateLimitPeriod * MsPerSecond

Admitted(S) == Cardinality({ i \in S : log[i].ok })

\* The i-th limiter call comes after at least a period without limiter call.
IdleBefore(i) ==
    IF i = 1 THEN log[1].t >= PeriodMs ELSE log[i].t - log[i - 1].t >= PeriodMs

\* C1: on a fresh limiter, each of the first C calls that arrive with no time
\* elapsing since the first call is admitted.
C1_FirstBurstAdmitted ==
    \A i \in 1..Len(log) :
        (i <= Capacity /\ log[i].t = log[1].t) => log[i].ok

\* A burst of two calls at one instant, both admitted by a bucket of two.
C1_Witness ==
    /\ Capacity = 2
    /\ Len(log) >= 2
    /\ log[2].t = log[1].t
    /\ log[1].ok /\ log[2].ok

\* C2 as stated: after C admitted calls, the (C+1)-th call is rejected when
\* it comes less than P seconds after the first call.
C2_RejectedWithinPeriod ==
    (/\ Len(log) > Capacity
     /\ \A i \in 1..Capacity : log[i].ok
     /\ log[Capacity + 1].t - log[1].t < PeriodMs)
    => ~log[Capacity + 1].ok

\* C2 amended: a call is rejected when C calls were admitted less than P/C
\* seconds before it (less than the time one token takes to refill).
C2_RejectedWithinTokenInterval ==
    \A j \in 1..Len(log) :
        Admitted({ i \in 1..(j - 1) :
                     (log[j].t - log[i].t) * Capacity < PeriodMs }) >= Capacity
        => ~log[j].ok

\* A call rejected some time after a burst of C admitted calls, before a
\* token was refilled.
C2_Witness ==
    \E j \in 1..Len(log) :
        /\ j > Capacity
        /\ \A i \in 1..Capacity : log[i].ok
        /\ log[j].t > log[1].t
        /\ (log[j].t - log[1].t) * Capacity < PeriodMs
        /\ ~log[j].ok

\* C3: after at least P seconds without limiter call, of the calls that
\* follow with no time elapsing exactly the first C are admitted, however
\* long the idle time was.
C3_RefillSaturates ==
    \A i \in 1..Len(log) :
        IdleBefore(i) =>
            \A j \in i..Len(log) :
                log[j].t = log[i].t => (log[j].ok <=> j - i + 1 <= Capacity)

\* A used limiter, idle for more than a period, then C + 1 calls at one
\* instant, the last of them rejected.
C3_Witness ==
    \E i \in 2..Len(log) :
        /\ log[1].ok
        /\ log[i].t - log[i - 1].t > PeriodMs
        /\ Len(log) >= i + Capacity
        /\ log[i + Capacity].t = log[i].t
        /\ ~log[i + Capacity].ok

\* C4: when more than C requests call a fresh limiter at one instant, exactly
\* C of them are admitted and the others rejected, in whatever order their
\* goroutines reach the limiter, and the bucket holds what was not spent.
C4_ConcurrentBurst ==
    (Len(log) > Capacity /\ \A i \in 1..Len(log) : log[i].t = log[1].t)
    => /\ Admitted(1..Len(log)) = Capacity
       /\ Cardinality({ i \in 1..Len(log) : ~log[i].ok }) = Len(log) - Capacity
       /\ limiter.tokens = 0

\* Three requests in flight together reach a bucket of two at one instant, a
\* later arrival ahead of the first one.
C4_Witness ==
    /\ Capacity = 2
    /\ Len(log) = 3
    /\ \A i \in 1..3 : log[i].t = log[1].t
    /\ log[1].req # 1
    /\ ~log[3].ok

\* Shorthands over a request's history.
Has(r, e) == \E k \in 1..Len(trace[r]) : trace[r][k] = e

IsPrefix(a, b) == Len(a) <= Len(b) /\ SubSeq(b, 1, Len(a)) = a

\* The events that follow the limiter's admission of request r.
AfterAllow(r) ==
    LET k == CHOOSE k \in 1..Len(trace[r]) : trace[r][k] = "allow"
    IN  SubSeq(trace[r], k + 1, Len(trace[r]))

\* C5: every request runs the chain in the order delay, limiter, handler
\* (the handler only after an admission), and the limiter is consulted only
\* once the request's delay has passed.
C5_ThrottleThenLimitThenHandler ==
    /\ \A r \in Requests :
          \/ IsPrefix(trace[r], <<"arrive", "sleep", "wake", "allow", "handler">>)
          \/ IsPrefix(trace[r], <<"arrive", "sleep", "wake", "deny">>)
          \/ config.ThrottleMaxMs = 0
               /\ IsPrefix(trace[r], <<"arrive", "allow", "handler">>)
          \/ config.ThrottleMaxMs = 0
               /\ IsPrefix(trace[r], <<"arrive", "deny">>)
          \/ IsPrefix(trace[r], <<"arrive", "panic">>)
    /\ \A i \in 1..Len(log) :
          log[i].t >= enter[log[i].req] + delay[log[i].req]

\* A request that slept a positive delay, was admitted and handled.
C5_Witness ==
    \E r \in Requests :
        /\ trace[r] = <<"arrive", "sleep", "wake", "allow", "handler">>
        /\ delay[r] > 0

\* C6: a request the limiter rejected never reaches the handler, and the
\* rejection ends it: in every later state it is done with the 429 as its
\* only response.
C6_RejectedNeverHandled ==
    \A r \in Requests :
        Has(r, "deny") =>
            /\ ~Has(r, "handler")
            /\ trace[r][Len(trace[r])] = "deny"
            /\ pc[r] = "done"
            /\ Len(resp[r]) = 1 /\ resp[r][1].by = "ratelimit"

\* Every request has finished and one of them was rejected.
C6_Witness ==
    /\ \A r \in Requests : pc[r] \in {"done", "absent"}
    /\ \E r \in Requests : Has(r, "deny")
    /\ \E r \in Requests : Has(r, "handler")

C8_AdmittedHandledOnce ==
    \A r \in Requests :
        Has(r, "allow") =>
            /\ AfterAllow(r) \in {<< >>, <<"handler">>}
            /\ pc[r] = "done" <=> AfterAllow(r) = <<"handler">>
            /\ pc[r] \in {"ready", "done"}
            /\ resp[r] = IF pc[r] = "done"
                         THEN <<HandlerResponse(RequestOf(r))>> ELSE << >>
            /\ Cardinality({ i \in 1..Len(log) : log[i].req = r }) = 1

\* An admitted request that has been handled after a delay.
C8_Witness ==
    \E r \in Requests :
        /\ Has(r, "allow") /\ Has(r, "sleep")
        /\ pc[r] = "done"
        /\ resp[r] = <<HandlerResponse(RequestOf(r))>>

\* C9: every request the limiter rejected had, by then, spent at least its
\* computed delay in the pipeline; with throttling on it did sleep first.
C9_DelayThenReject ==
    \A i \in 1..Len(log) :
        ~log[i].ok =>
            LET r == log[i].req
            IN  /\ log[i].t - enter[r] >= delay[r]
                /\ config.ThrottleMaxMs > 0 =>
                      /\ Has(r, "sleep") /\ Has(r, "wake")
                      /\ delay[r] >= config.ThrottleMinMs

\* A request rejected after a positive delay.
C9_Witness ==
    \E i \in 1..Len(log) :
        /\ ~log[i].ok
        /\ delay[log[i].req] > 0
        /\ resp[log[i].req][1].status = 429

\* C10: with ThrottleMaxMs = 0 no request ever sleeps or is aborted in the
\* throttle stage, whatever ThrottleMinMs is: it goes straight on.
C10_DisabledThrottleNoSleep ==
    config.ThrottleMaxMs = 0 =>
        \A r \in Requests :
            /\ pc[r] \notin {"sleeping", "panicked"}
            /\ ~Has(r, "sleep") /\ ~Has(r, "panic")
            /\ delay[r] = 0

\* With ThrottleMaxMs = 0 and ThrottleMinMs = 1 a request has gone through
\* the throttle stage and on to its end.
C10_Witness ==
    /\ config.ThrottleMaxMs = 0
    /\ config.ThrottleMinMs > 0
    /\ \E r \in Requests : pc[r] = "done" /\ ~Has(r, "sleep")

----------------------------------------------------------------------------
\* C11: when throttling is enabled (ThrottleMaxMs > 0) with ThrottleMinMs <=
\* ThrottleMaxMs, the delay computed for a request, whatever the clock reads,
\* is at least ThrottleMinMs and at most ThrottleMaxMs, and it is that very
\* value when the two are equal.
C11_DelayWithinBounds ==
    (config.ThrottleMaxMs > 0 /\ config.ThrottleMinMs <= config.ThrottleMaxMs) =>
        \A r \in Requests :
            Has(r, "sleep") =>
                /\ config.ThrottleMinMs <= delay[r]
                /\ delay[r] <= config.ThrottleMaxMs
                /\ config.ThrottleMinMs = config.ThrottleMaxMs =>
                       delay[r] = config.ThrottleMinMs

\* A request has slept the longest delay of a policy with 0 < min < max.
C11_Witness ==
    /\ 0 < config.ThrottleMinMs
    /\ config.ThrottleMinMs < config.ThrottleMaxMs
    /\ \E r \in Requests : Has(r, "wake") /\ delay[r] = config.ThrottleMaxMs

----------------------------------------------------------------------------
\* The responses the health requests have received.
HealthResponses ==
    UNION { { resp[h][k] : k \in 1..Len(resp[h]) } : h \in HealthRequests }

\* C12: the health endpoint answers 200 with status "ok" and database.status
\* "connected" when db.Ping() succeeded, and 503 with status "degraded" and
\* database.status "disconnected" when it failed.
C12_HealthFollowsProbe ==
    \A w \in { x \in HealthResponses : x.by = "health" } :
        IF w.probe.ok
        THEN /\ w.status = 200
             /\ w.body # ""
             /\ w.doc.status = "ok"
             /\ w.doc.database.status = "connected"
        ELSE /\ w.status = 503
             /\ w.body # ""
             /\ w.doc.status = "degraded"
             /\ w.doc.database.status = "disconnected"

\* C13: whenever db.Ping() failed, the response has a database.error field
\* holding the error's message as it is.
C13_ErrorVerbatim ==
    \A w \in { x \in HealthResponses : x.by = "health" } :
        ~w.probe.ok =>
            /\ w.body # ""
            /\ "error" \in DOMAIN w.doc.database
            /\ w.doc.database.error = w.probe.msg

\* C14: a health request never sleeps in the throttle and never calls the
\* limiter, so it is never answered 429, and the limiter's tokens and last
\* refill are what the API requests' calls alone have made them: health
\* requests do not change which API requests are admitted.
C14_HealthOutsideLimiter ==
    /\ \A h \in HealthRequests :
          /\ pc[h] # "sleeping"
          /\ ~Has(h, "sleep") /\ ~Has(h, "allow") /\ ~Has(h, "deny")
          /\ \A k \in 1..Len(resp[h]) : resp[h][k].status # StatusTooManyRequests
    /\ \A i \in 1..Len(log) : log[i].req \in Requests
    /\ limiter = LimiterAfter(log)

\* With one token in the bucket and no time passed, every health request
\* has been answered and an API request has still been admitted.
C14_Witness ==
    /\ now = 0
    /\ Capacity = 1 /\ config.RateLimitPeriod = 1
    /\ \A h \in HealthRequests : pc[h] = "done"
    /\ \E r \in Requests : Has(r, "allow")

\* C15: every health response reports, in its configuration section, the
\* configured requests and period_seconds, rate_per_second as their quotient,
\* min_ms and max_ms, and enabled = (ThrottleMaxMs > 0), which is true exactly
\* when the throttle stage sleeps.
C15_HealthReportsConfiguration ==
    \A w \in { x \in HealthResponses : x.by = "health" } :
        /\ w.body # ""
        /\ LET rl == w.doc.configuration.rate_limiting
               th == w.doc.configuration.throttling
           IN  /\ rl.requests = config.RateLimitRequests
               /\ rl.period_seconds = config.RateLimitPeriod
               /\ rl.rate_per_second.den # 0
               /\ rl.rate_per_second.num * config.RateLimitPeriod =
                     rl.rate_per_second.den * config.RateLimitRequests
               /\ th.min_ms = config.ThrottleMinMs
               /\ th.max_ms = config.ThrottleMaxMs
               /\ th.enabled = (config.ThrottleMaxMs > 0)
               /\ th.enabled = throttleSleeps(config)
               /\ (\E r \in Requests : Has(r, "sleep")) => th.enabled

\* C20: every response with status 429 (rate-limit rejection) or 503
\* (degraded health) has a body that is not empty.
C20_ErrorResponsesHaveBody ==
    \A r \in Clients :
        \A k \in 1..Len(resp[r]) :
            resp[r][k].status \in {StatusTooManyRequests, 503} =>
                resp[r][k].body # ""

\* C16: a policy with RateLimitPeriod <= 0 is rejected at startup: the
\* process does not come to serve requests with it, and the limiter is never
\* built with a rate that is a division by zero (infinite or NaN).
C16_PeriodValidated ==
    /\ phase = "serving" => config.RateLimitPeriod > 0
    /\ limiter # nilLimiter => limiter.limit.den # 0

\* C17: a configuration with ThrottleMinMs > ThrottleMaxMs is fatal: the
\* process does not come to serve requests with it.
C17_ThrottleBoundsValidated ==
    phase = "serving" => config.ThrottleMinMs <= config.ThrottleMaxMs

\* C18: loadConfig gives RateLimitRequests = 10, RateLimitPeriod = 1,
\* ThrottleMinMs = 0 and ThrottleMaxMs = 0, each when its own variable is
\* absent or empty, whatever the other three variables hold.
C18_Defaults ==
    phase # "start" =>
        /\ env["RATE_LIMIT_REQUESTS"] \in {Unset, ""} => config.RateLimitRequests = 10
        /\ env["RATE_LIMIT_PERIOD"] \in {Unset, ""} => config.RateLimitPeriod = 1
        /\ env["THROTTLE_MIN_MS"] \in {Unset, ""} => config.ThrottleMinMs = 0
        /\ env["THROTTLE_MAX_MS"] \in {Unset, ""} => config.ThrottleMaxMs = 0

\* loadConfig has run with RATE_LIMIT_REQUESTS absent, RATE_LIMIT_PERIOD empty
\* and THROTTLE_MAX_MS set to 2: the first two took their defaults next to a
\* variable that did not.
C18_Witness ==
    /\ phase = "configured"
    /\ env["RATE_LIMIT_REQUESTS"] = Unset
    /\ env["RATE_LIMIT_PERIOD"] = ""
    /\ env["THROTTLE_MAX_MS"] = "2"
    /\ config.RateLimitRequests = 10
    /\ config.RateLimitPeriod = 1
    /\ config.ThrottleMaxMs = 2

\* C19: the limiter is one bucket for all the API routes: among the calls
\* made at one instant, whatever routes they are on, at most C are admitted,
\* and once C have been admitted a call from any route is rejected.
C19_OneBucketAcrossRoutes ==
    /\ \A t \in Instants :
          Cardinality({ i \in 1..Len(log) : log[i].ok /\ log[i].t = t }) <= Capacity
    /\ \A j \in 1..Len(log) :
          Cardinality({ i \in 1..(j - 1) : log[i].ok /\ log[i].t = log[j].t }) = Capacity
              => ~log[j].ok

\* Three requests on three different routes have reached the limiter of
\* capacity 2 at the same instant: the first two took the tokens, the third,
\* on yet another route, was rejected.
C19_Witness ==
    /\ Capacity = 2
    /\ Len(log) = 3
    /\ \A i \in 1..3 : log[i].t = log[1].t
    /\ \A i, j \in 1..3 : i # j => Route(log[i].req) # Route(log[j].req)
    /\ log[1].ok /\ log[2].ok /\ ~log[3].ok

----------------------------------------------------------------------------
\* The limiter on its own: servers started without a throttle policy, where
\* throttleMiddleware passes every request on at once and nothing sleeps.
InitLimiter ==
    /\ \E rp \in RatePolicies :
           Serving(rp, <<0, 0>>) /\ Idle(MaxRequests, 0)
    /\ db = Up

NextLimiter ==
    \/ Tick
    \/ \E r \in Requests : Logging(r)
    \/ \E r \in Requests : Throttle(r)
    \/ \E r \in Requests : RateLimit(r)
    \/ \E r \in Requests : Handler(r)

SpecLimiter == InitLimiter /\ [][NextLimiter]_vars

\* The servers started with a throttle policy.
InitDelayed ==
    /\ \E tp \in ThrottlePolicies :
           Serving(<<1, 1>>, tp) /\ Idle(MaxThrottledRequests, 0)
    /\ db = Up

SpecDelayed == InitDelayed /\ [][Next]_vars

----------------------------------------------------------------------------
\* C21: in every reachable state the limiter's token count, both as stored
\* at the last admission and as refilled up to the present, is at least 0 and
\* at most the capacity.
C21_TokensWithinCapacity ==
    /\ 0 <= limiter.tokens
    /\ limiter.tokens <= Capacity * TokenUnit(limiter)
    /\ 0 <= advance(limiter, now)
    /\ advance(limiter, now) <= Capacity * TokenUnit(limiter)

\* The bucket was drained by admissions and more than a period has passed
\* since: the refill has stopped at the capacity.
C21_Witness ==
    /\ Admitted(1..Len(log)) >= 1
    /\ limiter.tokens = 0
    /\ now - limiter.last > PeriodMs
    /\ advance(limiter, now) = Capacity * TokenUnit(limiter)

\* The limiter calls made from the i-th to the j-th that were admitted.
AdmittedBetween(i, j) == Admitted({ k \in 1..Len(log) : i <= k /\ k <= j })

\* C22: over any interval of T seconds the limiter admits at most
\* C + T * C / P requests; it is enough to take the intervals that begin and
\* end with a limiter call.  (Times are in ms and both sides are multiplied
\* by the period.)
C22_AdmissionsBounded ==
    \A i \in 1..Len(log) :
        \A j \in i..Len(log) :
            AdmittedBetween(i, j) * PeriodMs
                <= Capacity * PeriodMs + (log[j].t - log[i].t) * Capacity

\* The bound is met: over an interval of positive length the admissions are
\* exactly the burst plus the refill.
C22_Witness ==
    \E i \in 1..Len(log) :
        \E j \in i..Len(log) :
            /\ log[j].t > log[i].t
            /\ AdmittedBetween(i, j) * PeriodMs
                  = Capacity * PeriodMs + (log[j].t - log[i].t) * Capacity

\* The request r goes through rateLimitMiddleware in this step and comes out
\* with the event e.
Decided(r, e) ==
    /\ trace'[r] # trace[r]
    /\ trace'[r][Len(trace'[r])] = e

\* C23: a request is admitted by the limiter exactly when the bucket, refilled
\* for the time elapsed up to the call, holds at least one whole token, and
\* an admission leaves the refilled count less exactly one token.
C23_AdmitIffWholeToken ==
    [][ \A r \in Requests :
          /\ Decided(r, "allow") =>
                /\ advance(limiter, now) >= TokenUnit(limiter)
                /\ limiter'.tokens = advance(limiter, now) - TokenUnit(limiter)
          /\ Decided(r, "deny") =>
                advance(limiter, now) < TokenUnit(limiter) ]_vars

\* A call was rejected while the bucket held a part of a token, and a later
\* call was admitted once the token was whole.
C23_Witness ==
    \E i \in 1..Len(log) :
        \E j \in (i + 1)..Len(log) :
            /\ ~log[i].ok
            /\ log[i].t > log[1].t
            /\ log[j].ok

\* The calls of entries that were admitted, the rejected ones removed.
AdmittedOnly(entries) == SelectSeq(entries, LAMBDA e : e.ok)

\* C24: a rejected call leaves the limiter as it was: the limiter is the one
\* the admitted calls alone produce, and every call is decided as it would be
\* had the rejected calls before it never been made.
C24_RejectionLeavesLimiter ==
    /\ limiter = LimiterAfter(AdmittedOnly(log))
    /\ \A j \in 1..Len(log) :
          log[j].ok =
              AllowOk(LimiterAfter(AdmittedOnly(SubSeq(log, 1, j - 1))), log[j].t)

\* An admitted call, a rejected call at a later instant, and after it a call
\* that is admitted.
C24_Witness ==
    /\ Len(log) = 3
    /\ log[1].ok /\ ~log[2].ok /\ log[3].ok
    /\ log[2].t > log[1].t

\* How many times the event e occurs in the history of request r.
Count(r, e) == Cardinality({ k \in 1..Len(trace[r]) : trace[r][k] = e })

\* C25: a request sleeps at most once and consults the limiter at most once;
\* a rejected request is finished by its rejection: it holds the 429 and
\* nothing else, and is neither waiting, nor consulted again, nor admitted.
C25_AtMostOnce ==
    \A r \in Requests :
        /\ Count(r, "sleep") <= 1
        /\ Count(r, "allow") + Count(r, "deny") <= 1
        /\ Cardinality({ i \in 1..Len(log) : log[i].req = r }) <= 1
        /\ Has(r, "deny") =>
              /\ pc[r] = "done"
              /\ trace[r][Len(trace[r])] = "deny"
              /\ resp[r] = << RateLimitResponse >>

\* A request has slept once and been rejected, and the bucket has since
\* refilled: it stays rejected.
C25_Witness ==
    \E r \in Requests :
        /\ Count(r, "sleep") = 1
        /\ Has(r, "deny")
        /\ now > log[Len(log)].t
        /\ AllowOk(limiter, now)

\* C26: while a request is asleep in its throttle delay, every other request
\* that has arrived can take the step it is at: enter the throttle, wake once
\* its own delay is over, consult the limiter, run its handler.
C26_SleepBlocksNoOther ==
    \A r \in Requests :
        pc[r] = "sleeping" =>
            \A q \in Requests \ {r} :
                /\ InStage(q, "throttle") => ENABLED Throttle(q)
                /\ (pc[q] = "sleeping" /\ SleepDone(q)) => ENABLED ThrottleWake(q)
                /\ InStage(q, "ratelimit") => ENABLED RateLimit(q)
                /\ InStage(q, "handler") => ENABLED Handler(q)

\* A request that arrived later with a shorter delay has its response while
\* the request that arrived before it is still asleep.
C26_Witness ==
    \E r \in Requests :
        \E q \in Requests :
            /\ r < q
            /\ pc[r] = "sleeping"
            /\ Has(q, "wake")
            /\ delay[q] < delay[r]
            /\ pc[q] = "done"

\* C27: every request that has entered the pipeline eventually has its
\* terminal outcome, the 429 of the limiter or the response of its handler.
C27_EveryRequestEnds ==
    \A r \in Requests :
        Has(r, "arrive") ~> (pc[r] = "done" /\ resp[r] # << >>)

\* C28: the pipeline with loggingMiddleware does what the pipeline without it
\* does: seen without its logging, every step of the logged pipeline is a step
\* of the unlogged one or changes nothing, with the same delays, limiter
\* decisions, limiter state, responses and handler runs; and a request that
\* has come in is never held back by the logging.
C28_LoggingRefinesUnlogged ==
    [][ /\ UnloggedNext \/ UNCHANGED varsU
        /\ \A r \in Requests :
              (InStage(r, "logging") /\ \A q \in Requests : q < r => trace[q] # << >>)
                  => ENABLED Logging(r) ]_vars

\* Logged requests have gone the whole way: one slept, was admitted and
\* handled, another was rejected.
C28_Witness ==
    \E r \in Requests :
        \E q \in Requests :
            /\ trace[r] = <<"arrive", "sleep", "wake", "allow", "handler">>
            /\ trace[q] = <<"arrive", "sleep", "wake", "deny">>

\* C29: a health request calls db.Ping() once and no more, whether the ping
\* succeeds or fails: never twice while it runs, exactly once when it has
\* answered, and with one response.
C29_OneProbePerRequest ==
    \A h \in HealthRequests :
        /\ Count(h, "ping") <= 1
        /\ pc[h] = "done" => /\ Count(h, "ping") = 1
                             /\ Len(resp[h]) = 1

\* Two health requests have answered, one after a ping that succeeded and one
\* after a ping that failed.
C29_Witness ==
    \E h \in HealthRequests :
        \E g \in HealthRequests :
            /\ pc[h] = "done" /\ resp[h][1].probe.ok /\ Count(h, "ping") = 1
            /\ pc[g] = "done" /\ ~resp[g][1].probe.ok /\ Count(g, "ping") = 1

\* C30: a health request's answer follows the ping made during that request
\* and nothing earlier: whatever was answered before, it is 200 with status
\* "ok" when its own ping succeeds and 503 when its own ping fails.
C30_OutcomeFollowsOwnProbe ==
    [][ \A h \in HealthRequests :
           (pc[h] # "done" /\ pc'[h] = "done") =>
               LET w == resp'[h][Len(resp'[h])]
               IN  /\ w.probe = db
                   /\ IF db.ok
                      THEN /\ w.status = 200
                           /\ w.body # ""
                           /\ w.doc.status = "ok"
                      ELSE w.status = 503 ]_vars

----------------------------------------------------------------------------
\* C31: config is written by main()'s loadConfig step and by no other, the
\* limiter's rate and burst by main()'s NewLimiter step and by no other, and
\* both before any request is taken: no step of a request (logging, throttle,
\* limiter call, handler, health) changes them.
C31_WrittenOnlyAtStartup ==
    [][ /\ config' # config => (phase = "start" /\ phase' = "configured")
        /\ (limiter'.limit # limiter.limit \/ limiter'.burst # limiter.burst)
               => (phase = "configured" /\ phase' = "limited")
        /\ phase # "serving" => \A r \in Clients : trace[r] = << >>
        /\ (\E r \in Clients : trace'[r] # trace[r])
               => /\ config' = config /\ config = loadConfigEnv(env)
                  /\ limiter'.limit = limiter.limit
                  /\ limiter'.burst = limiter.burst ]_vars

\* The server was started, an API request slept, took the limiter's token and
\* was handled, a health request was answered, and the configuration and the
\* limiter's rate and burst are those main() wrote.
C31_Witness ==
    /\ phase = "serving"
    /\ \E r \in Requests : Has(r, "sleep") /\ Has(r, "handler")
    /\ \E h \in HealthRequests : pc[h] = "done"
    /\ limiter.tokens # mainLimiter(config).tokens
    /\ config = loadConfigEnv(env)
    /\ limiter.limit = mainLimiter(config).limit
    /\ limiter.burst = mainLimiter(config).burst

----------------------------------------------------------------------------
\* C32: with ThrottleMinMs < ThrottleMaxMs, every whole number of milliseconds
\* from ThrottleMinMs to ThrottleMaxMs, both included, is the delay for some
\* reading of the clock: a request about to be throttled can be given each of
\* them.
C32_DelayCoversInterval ==
    config.ThrottleMinMs < config.ThrottleMaxMs =>
        \A d \in config.ThrottleMinMs..config.ThrottleMaxMs :
            /\ \E nanos \in 0..MaxNanos : throttleDelay(config, nanos) = d
            /\ \A r \in Requests :
                   InStage(r, "throttle") => ENABLED (Throttle(r) /\ delay'[r] = d)

\* A request sleeps a delay strictly between the two bounds.
C32_Witness ==
    \E r \in Requests :
        /\ Has(r, "sleep")
        /\ config.ThrottleMinMs < delay[r]
        /\ delay[r] < config.ThrottleMaxMs

----------------------------------------------------------------------------
\* C33: the bucket refills at the quotient capacity / period as it is, not
\* rounded down to a whole number per second: when an admitted call has left
\* the bucket empty, the next call is admitted if and only if period /
\* capacity seconds have passed since, also where capacity < period.
C33_FractionalRate ==
    \A i \in 1..Len(log) :
        (/\ i < Len(log)
         /\ log[i].ok
         /\ LimiterAfter(SubSeq(log, 1, i)).tokens = 0)
            => (log[i + 1].ok <=> (log[i + 1].t - log[i].t) * Capacity >= PeriodMs)

\* One request per two seconds: the bucket is drained, a call one second
\* later is rejected and a call two seconds after the drain is admitted.
C33_Witness ==
    /\ Capacity < config.RateLimitPeriod
    /\ Len(log) = 3
    /\ log[1].ok
    /\ ~log[2].ok /\ log[2].t = log[1].t + MsPerSecond
    /\ log[3].ok /\ (log[3].t - log[1].t) * Capacity = PeriodMs

----------------------------------------------------------------------------
\* C34: in every health response the four indicators say the same: the HTTP
\* status is 503 exactly when the body's status is "degraded", exactly when
\* database.status is "disconnected", exactly when database.error is there,
\* whatever error db.Ping() returned.
C34_IndicatorsAgree ==
    \A w \in { x \in HealthResponses : x.by = "health" } :
        /\ w.body # ""
        /\ (w.status = 503) <=> (w.doc.status = "degraded")
        /\ (w.status = 503) <=> (w.doc.database.status = "disconnected")
        /\ (w.status = 503) <=> ("error" \in DOMAIN w.doc.database)

----------------------------------------------------------------------------
\* C35: whatever configuration the server runs with, the throttle passes each
\* request on exactly once: no request is aborted while its delay is being
\* computed, none sleeps a negative time, none sleeps or wakes twice, and a
\* request past the throttle has slept exactly when throttling is enabled.
C35_ThrottleHandsOn ==
    \A r \in Requests :
        /\ pc[r] # "panicked"
        /\ ~Has(r, "panic")
        /\ Has(r, "sleep") => delay[r] >= 0
        /\ Count(r, "sleep") <= 1
        /\ Count(r, "wake") <= 1
        /\ (Has(r, "allow") \/ Has(r, "deny")) =>
               Count(r, "wake") = (IF throttleSleeps(config) THEN 1 ELSE 0)

----------------------------------------------------------------------------
\* The limiter calls i - 1 and i are at least period / capacity apart.
Paced(entries, i) ==
    (entries[i].t - entries[i - 1].t) * Capacity >= PeriodMs

----------------------------------------------------------------------------
\* The requests to /api/db/messages with a method that is neither GET nor
\* POST.
MethodNotAllowed == { r \in Requests : RequestOf(r) = "DELETE /api/db/messages" }

\* C37: a request to /api/db/messages with another method than GET or POST is
\* answered 405 only after it slept its throttle delay (where throttling is
\* enabled) and took a token from the limiter; when the limiter has no token
\* for it, it is answered the 429 and no 405; and the 405 has no body.
C37_MethodNotAllowedThroughPipeline ==
    \A r \in MethodNotAllowed :
        /\ \A k \in 1..Len(resp[r]) :
               resp[r][k].status = 405 =>
                   /\ resp[r][k].body = ""
                   /\ Has(r, "allow")
                   /\ \E i \in 1..Len(log) :
                          /\ log[i].req = r /\ log[i].ok
                          /\ throttleSleeps(config) =>
                                 /\ Has(r, "sleep") /\ Has(r, "wake")
                                 /\ log[i].t >= enter[r] + delay[r]
        /\ \A i \in 1..Len(log) :
               (log[i].req = r /\ ~log[i].ok) =>
                   /\ resp[r] = << RateLimitResponse >>
                   /\ RateLimitResponse.status = StatusTooManyRequests
        /\ Has(r, "handler") =>
               resp[r] = << [status |-> 405, body |-> "", by |-> "handler"] >>

\* A DELETE to /api/db/messages slept, took the only token and was answered
\* 405; the GET that came to the limiter after it was rejected.
C37_Witness ==
    \E r \in MethodNotAllowed :
        /\ Has(r, "wake") /\ delay[r] > 0
        /\ resp[r] = << [status |-> 405, body |-> "", by |-> "handler"] >>
        /\ \E q \in Requests \ MethodNotAllowed :
               /\ Has(q, "deny")
               /\ \E i \in 1..Len(log) : \E j \in 1..Len(log) :
                      i < j /\ log[i].req = r /\ log[j].req = q

----------------------------------------------------------------------------
\* C38: database initialisation at startup comes to an end: initDB leaves its
\* loop at the first ping that succeeds, gives up with the error after
\* maxRetries pings that failed one after the other, and main() then either
\* serves (after a ping and the table creation both succeeded) or has exited;
\* no request is taken before initDB returned without error, and none at all
\* once the process has exited.
C38_InitDBTerminates ==
    /\ <>(phase \in {"serving", "exited"})
    /\ [](/\ attempt \in 0..(maxRetries - 1)
          /\ attempt # 0 => phase = "limited"
          /\ phase # "serving" => \A r \in Clients : trace[r] = << >>)
    /\ [][ /\ (phase = "limited" /\ phase' # phase) =>
                  \/ db.ok /\ phase' = "connected"
                  \/ ~db.ok /\ attempt = maxRetries - 1 /\ phase' = "exited"
           /\ (phase = "limited" /\ phase' = phase /\ attempt' # attempt) =>
                  ~db.ok /\ attempt' = attempt + 1
           /\ (phase = "connected" /\ phase' # phase) =>
                  phase' = (IF db.ok THEN "initialised" ELSE "exited")
           /\ (phase' = "initialised" /\ phase # phase') => phase = "connected"
           /\ (phase' = "serving" /\ phase # phase') => phase = "initialised"
           /\ phase = "exited" => phase' = "exited" ]_vars

\* Twenty-nine pings have failed one after the other and the database is
\* still away: the thirtieth ping is the last.
C38_Witness ==
    /\ phase = "limited"
    /\ attempt = maxRetries - 1
    /\ ~db.ok

=============================================================================
